---- MODULE Spec2Model ----
(***************************************************************************)
(* Model of move_detect_cam (src/src/main.rs): the recorder thread (the    *)
(* RecordingActor), its client (RecorderClient::send_request), the control *)
(* loop of start_moving_detection_camera and main.                         *)
(*                                                                         *)
(* These programs are modelled over the same state:                        *)
(*   Spec       main() as written: the control loop drives the recorder.   *)
(*              The number of contours of a frame is an input.             *)
(*   SpecScripted    Spec, or Spec reading the frames of a fixed Scenario. *)
(*   SpecActor  the recorder thread driven by a client that calls          *)
(*              send_request with arbitrary requests, one call at a time.  *)
(*   SpecBackground  the background model of the control loop, for one     *)
(*              pixel of the gray image.                                   *)
(* A Result that the code unwraps (the video sink's open, write and        *)
(* release) may be Err: the unwrap then panics and the thread unwinds,     *)
(* dropping its locals.                                                    *)
(***************************************************************************)
EXTENDS Integers, Sequences, FiniteSets, TLC

\* ---------------------------------------------------------------- bounds
MaxReq == 4        \* requests a SpecActor client sends
MaxFrames == 5     \* frames the control loop processes
MaxStep == 2       \* seconds that pass between two processed frames, at most
MaxSeen == 8       \* frames the background model is fed

\* ------------------------------------------------------ program constants
contours_threshold == 50
DEFAULT_RECORDING_MIN_LEN == 3      \* seconds

\* The same two numbers as the specification names them; the history
\* variables and the properties are stated with these.
threshold_count == 50
min_record_duration == 3

\* accumulate_weighted's alpha, 0.6, as AlphaNum / AlphaDen
AlphaNum == 3
AlphaDen == 5
threshold1 == 40   \* imgproc::threshold's thresh
maxval == 255      \* imgproc::threshold's maxval, and the largest u8

\* `avg` is a CV_32F image. A pixel of it is kept as a pair of bounds lo..hi
\* in units of 1 / Scale that enclose the f32 value; every update widens the
\* pair by RoundErr units, more than the rounding of the two f32 products
\* and their sum (an ulp of a value below 256 is less than 2 units), fused
\* or not.
Scale == 1000000
RoundErr == 100

None == -1         \* Option::None of start_datetime
Grays == {0, 128, 255}
Activities == {0, 49, 50, 60}

VARIABLES
    recording,       \* recorder_thread: let mut recording
    writer,          \* recorder_thread: let mut writer (0 is None, else an index of sinks)
    apc,             \* recorder thread: "recv", "exiting", "done", "panicked"
    sinks,           \* every VideoWriter ever constructed, in order
    reqQ,            \* request channel (req_sender -> req_receiver)
    resQ,            \* response channel (res_sender -> res_receiver)
    pc,              \* main thread's position
    is_recording,    \* control loop: let mut is_recording
    start_datetime,  \* control loop: let mut start_datetime
    now,             \* the clock, in seconds
    activity,        \* contours.len() of the frame being processed
    frameNo,         \* number of non-empty frames read so far
    eos,             \* the frame source has run dry: every read is empty
    script,          \* frames a scripted frame source has yet to deliver
    lastMotion,      \* history: time of the last frame with motion (None: none yet)
    gapsOK,          \* history: no two consecutive frames with motion were
                     \*          min_record_duration or more apart
    sent,            \* history: requests enqueued by send_request, in order
    got,             \* history: responses returned by send_request, in order
    have_avg,        \* control loop: let mut have_avg
    avg,             \* control loop: let mut avg, one pixel, [lo, hi] bounds
    gray,            \* one pixel of `gray` of the last frame
    scale_abs,       \* the same pixel of `scale_abs`
    frame_delta,     \* the same pixel of `frame_delta`
    thresh,          \* the same pixel of `thresh`, the motion mask
    seen,            \* history: frames the background model has been fed
    streak           \* history: how many of the last frames in a row had
                     \*          the intensity of the last one

bgVars == <<have_avg, avg, gray, scale_abs, frame_delta, thresh, seen, streak>>
actorVars == <<recording, writer, apc, sinks>>
chanVars == <<reqQ, resQ>>
ctlVars == <<is_recording, start_datetime, now, activity, frameNo, lastMotion, gapsOK, eos, script, bgVars>>
histVars == <<sent, got>>
vars == <<recording, writer, apc, sinks, reqQ, resQ, pc, is_recording,
          start_datetime, now, activity, frameNo, lastMotion, gapsOK, eos, script, bgVars, sent, got>>

\* ------------------------------------------------------------- requests
\* RecorderRequest. A request sent gets a ghost field id, its ordinal among
\* the requests sent (see Stamp).
Start == [kind |-> "Start", frame |-> 0]
Frame(f) == [kind |-> "Frame", frame |-> f]
Stop == [kind |-> "Stop", frame |-> 0]
Shutdown == [kind |-> "Shutdown", frame |-> 0]

\* ------------------------------------------------------------ video sink
\* VideoWriter::new(..) succeeded: one more sink, open and empty.
OpenSink(s) == Append(s, [st |-> "open", frames |-> <<>>])

\* writer.write(&mat) succeeded on sink w.
WriteSink(s, w, f) == [s EXCEPT ![w].frames = Append(@, f)]

\* writer.release() succeeded on sink w.
ReleaseSink(s, w) == [s EXCEPT ![w].st = "released"]

\* The Box<VideoWriter> bound to `writer` is dropped (overwritten, set to
\* None, or the thread's locals go out of scope): its destructor closes it.
DropSink(s, w) ==
    IF w # 0 /\ s[w].st = "open" THEN [s EXCEPT ![w].st = "dropped"] ELSE s

OpenSinks == {i \in 1..Len(sinks) : sinks[i].st = "open"}

\* ------------------------------------------------------ channel liveness
ActorTerminated == apc \in {"done", "panicked"}
ClientGone == pc \in {"panicked", "done", "h_dropped"}

\* ---------------------------------------------------------------- Init
InitCommon ==
    /\ recording = FALSE
    /\ writer = 0
    /\ apc = "recv"
    /\ sinks = <<>>
    /\ reqQ = <<>>
    /\ resQ = <<>>
    /\ is_recording = FALSE
    /\ start_datetime = None
    /\ now = 0
    /\ activity = 0
    /\ frameNo = 0
    /\ eos = FALSE
    /\ lastMotion = None
    /\ gapsOK = TRUE
    /\ sent = <<>>
    /\ got = <<>>
    /\ have_avg = FALSE
    /\ avg = [lo |-> 0, hi |-> 0]
    /\ gray = 0
    /\ scale_abs = 0
    /\ frame_delta = 0
    /\ thresh = 0
    /\ seen = 0
    /\ streak = 0

Init == InitCommon /\ pc = "read" /\ script = <<>>
InitActor == InitCommon /\ pc = "h_idle" /\ script = <<>>

\* ------------------------------------------------------- recorder_thread
\* Mutant of ActorPanic: a failed sink call is answered Err and the thread
\* lives on.
ActorPanic_AnswersErr ==
    /\ resQ' = Append(resQ, [val |-> "Err", id |-> Head(reqQ).id])
    /\ UNCHANGED <<recording, writer, apc, sinks>>

\* The thread panics while handling a request: no response is sent and the
\* unwinding drops `writer`.
ActorPanic ==
    /\ apc' = "panicked"
    /\ sinks' = DropSink(sinks, writer)
    /\ UNCHANGED <<recording, writer, resQ>>

\* Mutant of Respond: the response is sent twice.
Respond_Twice(r) ==
    resQ' = resQ \o << [val |-> r, id |-> Head(reqQ).id],
                       [val |-> r, id |-> Head(reqQ).id] >>

\* res_sender.send(r).unwrap(). The response carries, as a ghost field, the
\* ordinal of the request being handled.
Respond(r) == resQ' = Append(resQ, [val |-> r, id |-> Head(reqQ).id])

\* Mutant of HandleStart: the writer that is replaced is leaked, not dropped.
HandleStart_Leak(ok) ==
    IF ok
    THEN /\ sinks' = OpenSink(sinks)
         /\ writer' = Len(sinks) + 1
         /\ recording' = TRUE
         /\ Respond("Ok")
         /\ apc' = apc
    ELSE ActorPanic

\* Mutant of HandleStart: the new sink is opened but `writer` keeps its old
\* binding.
HandleStart_NoRebind(ok) ==
    IF ok
    THEN /\ sinks' = OpenSink(sinks)
         /\ writer' = IF writer = 0 THEN Len(sinks) + 1 ELSE writer
         /\ recording' = TRUE
         /\ Respond("Ok")
         /\ apc' = apc
    ELSE ActorPanic

HandleStart(ok) ==
    IF ok
    THEN /\ sinks' = DropSink(OpenSink(sinks), writer)
         /\ writer' = Len(sinks) + 1
         /\ recording' = TRUE
         /\ Respond("Ok")
         /\ apc' = apc
    ELSE ActorPanic

\* Mutant of HandleFrame: the arm for `recording == false` sends nothing.
HandleFrame_Silent(f, ok) ==
    IF recording
    THEN IF writer # 0
         THEN IF ok
              THEN /\ sinks' = WriteSink(sinks, writer, f)
                   /\ Respond("Ok")
                   /\ UNCHANGED <<recording, writer, apc>>
              ELSE ActorPanic
         ELSE Respond("Err") /\ UNCHANGED <<recording, writer, apc, sinks>>
    ELSE UNCHANGED <<resQ, recording, writer, apc, sinks>>

\* Mutant of HandleFrame: Ok is sent without the frame being written.
HandleFrame_NoWrite(f, ok) ==
    IF recording /\ writer # 0
    THEN Respond("Ok") /\ UNCHANGED <<recording, writer, apc, sinks>>
    ELSE Respond("Err") /\ UNCHANGED <<recording, writer, apc, sinks>>

HandleFrame(f, ok) ==
    IF recording
    THEN IF writer # 0
         THEN IF ok
              THEN /\ sinks' = WriteSink(sinks, writer, f)
                   /\ Respond("Ok")
                   /\ UNCHANGED <<recording, writer, apc>>
              ELSE ActorPanic
         ELSE Respond("Err") /\ UNCHANGED <<recording, writer, apc, sinks>>
    ELSE Respond("Err") /\ UNCHANGED <<recording, writer, apc, sinks>>

\* Mutant of HandleStop: a Stop with nothing to stop is answered Ok.
HandleStop_IdleOk(ok) ==
    IF recording
    THEN IF writer # 0
         THEN IF ok
              THEN /\ sinks' = ReleaseSink(sinks, writer)
                   /\ Respond("Ok")
                   /\ writer' = 0
                   /\ recording' = FALSE
                   /\ apc' = apc
              ELSE ActorPanic
         ELSE /\ Respond("Err")
              /\ writer' = 0
              /\ recording' = FALSE
              /\ UNCHANGED <<apc, sinks>>
    ELSE Respond("Ok") /\ UNCHANGED <<recording, writer, apc, sinks>>

\* Mutant of HandleStop: `writer = None; recording = false;` is missing.
HandleStop_NoClear(ok) ==
    IF recording
    THEN IF writer # 0
         THEN IF ok
              THEN /\ sinks' = ReleaseSink(sinks, writer)
                   /\ Respond("Ok")
                   /\ UNCHANGED <<recording, writer, apc>>
              ELSE ActorPanic
         ELSE Respond("Err") /\ UNCHANGED <<recording, writer, apc, sinks>>
    ELSE Respond("Err") /\ UNCHANGED <<recording, writer, apc, sinks>>

\* Mutant of HandleStop: `recording = false;` is missing.
HandleStop_KeepsFlag(ok) ==
    IF recording
    THEN IF writer # 0
         THEN IF ok
              THEN /\ sinks' = ReleaseSink(sinks, writer)
                   /\ Respond("Ok")
                   /\ writer' = 0
                   /\ UNCHANGED <<recording, apc>>
              ELSE ActorPanic
         ELSE /\ Respond("Err")
              /\ writer' = 0
              /\ UNCHANGED <<recording, apc, sinks>>
    ELSE Respond("Err") /\ UNCHANGED <<recording, writer, apc, sinks>>

HandleStop(ok) ==
    IF recording
    THEN IF writer # 0
         THEN IF ok
              THEN /\ sinks' = ReleaseSink(sinks, writer)
                   /\ Respond("Ok")
                   /\ writer' = 0
                   /\ recording' = FALSE
                   /\ apc' = apc
              ELSE ActorPanic
         ELSE /\ Respond("Err")
              /\ writer' = 0
              /\ recording' = FALSE
              /\ UNCHANGED <<apc, sinks>>
    ELSE Respond("Err") /\ UNCHANGED <<recording, writer, apc, sinks>>

\* Mutant of HandleShutdown: the `break` is missing.
HandleShutdown_NoBreak ==
    /\ Respond("Ok")
    /\ UNCHANGED <<recording, writer, sinks, apc>>

HandleShutdown ==
    /\ Respond("Ok")
    /\ apc' = "exiting"
    /\ UNCHANGED <<recording, writer, sinks>>

\* One turn of `while let Ok(req) = req_receiver.recv()`: take the oldest
\* request and run its match arm. ok is the outcome of the arm's sink call.
ActorStep ==
    /\ apc = "recv"
    /\ reqQ # <<>>
    /\ reqQ' = Tail(reqQ)
    /\ \E ok \in BOOLEAN :
         LET req == Head(reqQ) IN
         CASE req.kind = "Start" -> HandleStart(ok)
           [] req.kind = "Frame" -> HandleFrame(req.frame, ok)
           [] req.kind = "Stop" -> HandleStop(ok)
           [] req.kind = "Shutdown" -> HandleShutdown
    /\ UNCHANGED <<pc, is_recording, start_datetime, now, activity, frameNo,
                   lastMotion, gapsOK, eos, script, bgVars, sent, got>>

\* recv() returns Err: the channel is empty and the RecorderClient is gone.
ActorDisconnect ==
    /\ apc = "recv"
    /\ reqQ = <<>>
    /\ ClientGone
    /\ apc' = "exiting"
    /\ UNCHANGED <<recording, writer, sinks, reqQ, resQ, pc, is_recording,
                   start_datetime, now, activity, frameNo, lastMotion, gapsOK, eos, script, bgVars, sent, got>>

\* Mutant of ActorExit: the thread ends without dropping `writer`.
ActorExit_NoDrop ==
    /\ apc = "exiting"
    /\ apc' = "done"
    /\ UNCHANGED <<recording, writer, sinks, reqQ, resQ, pc, is_recording,
                   start_datetime, now, activity, frameNo, lastMotion, gapsOK, eos, script, bgVars, sent, got>>

\* The loop has been left: the closure returns, its locals and the channel
\* ends it owns are dropped, the thread is finished.
ActorExit ==
    /\ apc = "exiting"
    /\ apc' = "done"
    /\ sinks' = DropSink(sinks, writer)
    /\ UNCHANGED <<recording, writer, reqQ, resQ, pc, is_recording,
                   start_datetime, now, activity, frameNo, lastMotion, gapsOK, eos, script, bgVars, sent, got>>

\* ------------------------------------------- RecorderClient::send_request
\* self.req_sender.send(request).unwrap(): enqueue, or panic when the
\* receiver has been dropped. The caller goes on at `next`.
Stamp(r) == [kind |-> r.kind, frame |-> r.frame, id |-> Len(sent) + 1]

SendRequest(r, next) ==
    IF ActorTerminated
    THEN pc' = "panicked" /\ UNCHANGED <<reqQ, sent>>
    ELSE /\ reqQ' = Append(reqQ, Stamp(r))
         /\ sent' = Append(sent, Stamp(r))
         /\ pc' = next

\* self.res_receiver.recv() can return: a response is queued, or the channel
\* is empty and its sender has been dropped (recv() is then Err).
RecvReady == resQ # <<>> \/ ActorTerminated

\* The value send_request returns; "Disconnected" is the unwrap's panic.
Received == IF resQ # <<>> THEN Head(resQ).val ELSE "Disconnected"

\* self.res_receiver.recv().unwrap() returning a response.
TakeResponse ==
    /\ resQ' = Tail(resQ)
    /\ got' = Append(got, Head(resQ))

Panic ==
    /\ pc' = "panicked"
    /\ UNCHANGED <<reqQ, resQ, sent, got, is_recording, start_datetime>>

\* ------------------------------------------------------ SpecActor client
HSend(r) ==
    /\ pc = "h_idle"
    /\ Len(sent) < MaxReq
    /\ SendRequest(r, "h_wait")
    /\ UNCHANGED <<actorVars, resQ, ctlVars, got>>

HRecv ==
    /\ pc = "h_wait"
    /\ RecvReady
    /\ IF Received = "Disconnected"
       THEN Panic
       ELSE /\ TakeResponse
            /\ pc' = "h_idle"
            /\ UNCHANGED <<reqQ, sent, is_recording, start_datetime>>
    /\ UNCHANGED <<actorVars, now, activity, frameNo, lastMotion, gapsOK, eos, script, bgVars>>

\* thread.join(): returns once the recorder thread has finished.
HJoin ==
    /\ pc = "h_idle"
    /\ ActorTerminated
    /\ pc' = "h_joined"
    /\ UNCHANGED <<actorVars, chanVars, ctlVars, histVars>>

\* The client is dropped without a Shutdown.
HDrop ==
    /\ pc = "h_idle"
    /\ pc' = "h_dropped"
    /\ UNCHANGED <<actorVars, chanVars, ctlVars, histVars>>

HRequests == {Start, Stop, Shutdown, Frame(Len(sent) + 1)}

NextActor ==
    \/ \E r \in HRequests : HSend(r)
    \/ HRecv
    \/ HJoin
    \/ HDrop
    \/ ActorStep
    \/ ActorDisconnect
    \/ ActorExit

SpecActor == InitActor /\ [][NextActor]_vars

\* The recorder thread is scheduled: a step it can take is eventually taken.
ActorFair == WF_vars(ActorStep) /\ WF_vars(ActorExit) /\ WF_vars(ActorDisconnect)

FairSpecActor == SpecActor /\ ActorFair /\ WF_vars(HRecv)

\* ------------------------------------------ start_moving_detection_camera
\* Mutant of RecordFrame: the frame is sent whatever is_recording says.
RecordFrame_Always(rec, f) == SendRequest(Frame(f), "frame_wait")

\* Step 3 of an iteration, `if is_recording { send_request(Frame(..)) }`,
\* with rec the flag's value there and f the frame; then wait_key.
RecordFrame(rec, f) ==
    IF rec
    THEN SendRequest(Frame(f), "frame_wait")
    ELSE pc' = "wait_key" /\ UNCHANGED <<reqQ, sent>>

\* Mutant of MotionDetected: `contours.len() > contours_threshold`.
MotionDetected_Strict(a) == a > contours_threshold

\* `contours.len() >= contours_threshold`
MotionDetected(a) == a >= contours_threshold

\* Mutant of StopDue: no dwell, the recording stops with the motion.
StopDue_NoDwell(t) == start_datetime # None

\* Mutant of StopDue: `diff > *DEFAULT_RECORDING_MIN_LEN`.
StopDue_Strict(t) ==
    /\ start_datetime # None
    /\ t - start_datetime > DEFAULT_RECORDING_MIN_LEN

\* `if let Some(start_datetime) = start_datetime` and
\* `diff >= *DEFAULT_RECORDING_MIN_LEN`, with t the value of `now`.
StopDue(t) ==
    /\ start_datetime # None
    /\ t - start_datetime >= DEFAULT_RECORDING_MIN_LEN

\* The history of the frames' motion, kept beside the program's state.
NoteFrame(a, t) ==
    /\ lastMotion' = IF a >= threshold_count THEN t ELSE lastMotion
    /\ gapsOK' = (gapsOK /\ ~(/\ a >= threshold_count
                                /\ lastMotion # None
                                /\ t - lastMotion >= min_record_duration))

\* Mutant of Decide: `else if is_recording` has lost its test, a still
\* frame sends Stop whenever the timer is due.
Decide_StopWhenIdle(a) ==
    IF MotionDetected(a)
    THEN IF ~is_recording
         THEN /\ is_recording' = TRUE
              /\ SendRequest(Start, "start_wait")
              /\ UNCHANGED start_datetime
         ELSE /\ start_datetime' = now'
              /\ UNCHANGED is_recording
              /\ RecordFrame(is_recording, frameNo')
    ELSE IF StopDue(now')
         THEN /\ SendRequest(Stop, "stop_wait")
              /\ UNCHANGED <<is_recording, start_datetime>>
         ELSE /\ RecordFrame(is_recording, frameNo')
              /\ UNCHANGED <<is_recording, start_datetime>>

\* The `recoding function` block for a frame with a contours, run up to its
\* first blocking call; now' is the frame's time, frameNo' its number.
Decide(a) ==
    IF MotionDetected(a)
    THEN IF ~is_recording
         THEN /\ is_recording' = TRUE
              /\ SendRequest(Start, "start_wait")
              /\ UNCHANGED start_datetime
         ELSE /\ start_datetime' = now'
              /\ UNCHANGED is_recording
              /\ RecordFrame(is_recording, frameNo')
    ELSE IF is_recording
         THEN IF StopDue(now')
              THEN /\ SendRequest(Stop, "stop_wait")
                   /\ UNCHANGED <<is_recording, start_datetime>>
              ELSE /\ RecordFrame(is_recording, frameNo')
                   /\ UNCHANGED <<is_recording, start_datetime>>
         ELSE /\ RecordFrame(is_recording, frameNo')
              /\ UNCHANGED <<is_recording, start_datetime>>

\* One iteration of the loop on a non-empty frame, up to its first blocking
\* call: d seconds have passed since the last frame and the motion mask has
\* a contours.
Iterate(a, d) ==
    /\ pc = "read"
    /\ ~eos
    /\ frameNo' = frameNo + 1
    /\ now' = now + d
    /\ activity' = a
    /\ Decide(a)
    /\ NoteFrame(a, now')
    /\ UNCHANGED <<actorVars, resQ, eos, bgVars, got>>

\* cap.read() yields a non-empty frame of a camera: any activity, any delay.
ProcessFrame(a, d) ==
    /\ script = <<>>
    /\ frameNo < MaxFrames
    /\ Iterate(a, d)
    /\ UNCHANGED script

\* cap.read() yields the next frame of a scripted source.
ScriptedFrame ==
    /\ script # <<>>
    /\ Iterate(Head(script)[1], Head(script)[2])
    /\ script' = Tail(script)

\* send_request(Start) returns.
StartReturns ==
    /\ pc = "start_wait"
    /\ RecvReady
    /\ IF Received \in {"Disconnected", "Err"}
       THEN Panic
       ELSE /\ TakeResponse
            /\ start_datetime' = now
            /\ UNCHANGED is_recording
            /\ RecordFrame(is_recording, frameNo)
    /\ UNCHANGED <<actorVars, now, activity, frameNo, lastMotion, gapsOK, eos, script, bgVars>>

\* Mutant of StopReturns: `is_recording = false` is forgotten.
StopReturns_KeepsFlag ==
    /\ pc = "stop_wait"
    /\ RecvReady
    /\ IF Received \in {"Disconnected", "Err"}
       THEN Panic
       ELSE /\ TakeResponse
            /\ UNCHANGED <<is_recording, start_datetime>>
            /\ RecordFrame(FALSE, frameNo)
    /\ UNCHANGED <<actorVars, now, activity, frameNo, lastMotion, gapsOK, eos, script, bgVars>>

\* send_request(Stop) returns.
StopReturns ==
    /\ pc = "stop_wait"
    /\ RecvReady
    /\ IF Received \in {"Disconnected", "Err"}
       THEN Panic
       ELSE /\ TakeResponse
            /\ is_recording' = FALSE
            /\ UNCHANGED start_datetime
            /\ RecordFrame(is_recording', frameNo)
    /\ UNCHANGED <<actorVars, now, activity, frameNo, lastMotion, gapsOK, eos, script, bgVars>>

\* send_request(Frame(..)) returns.
FrameReturns ==
    /\ pc = "frame_wait"
    /\ RecvReady
    /\ IF Received \in {"Disconnected", "Err"}
       THEN Panic
       ELSE /\ TakeResponse
            /\ pc' = "wait_key"
            /\ UNCHANGED <<reqQ, sent, is_recording, start_datetime>>
    /\ UNCHANGED <<actorVars, now, activity, frameNo, lastMotion, gapsOK, eos, script, bgVars>>

\* highgui::wait_key(10) > 0: break, the function returns Ok(()) and main
\* calls send_request(Shutdown).
KeyPressed ==
    /\ pc = "wait_key"
    /\ SendRequest(Shutdown, "shutdown_wait")
    /\ UNCHANGED <<actorVars, resQ, ctlVars, got>>

\* wait_key(10) <= 0: next iteration.
NoKey ==
    /\ pc = "wait_key"
    /\ pc' = "read"
    /\ UNCHANGED <<actorVars, chanVars, ctlVars, histVars>>

\* The frame source runs dry: this read and every later one yield an empty
\* frame, for which the loop body is skipped (wait_key included).
EndOfStream ==
    /\ pc = "read"
    /\ ~eos
    /\ eos' = TRUE
    /\ UNCHANGED <<actorVars, chanVars, pc, is_recording, start_datetime, now,
                   activity, frameNo, lastMotion, gapsOK, script, bgVars, histVars>>

\* cap.read() yields an empty frame: `frame.size()?.width > 0` is false, the
\* loop body (wait_key included) is skipped and the loop reads again. Nothing
\* changes.
ReadEmpty ==
    /\ pc = "read"
    /\ UNCHANGED vars

\* An opencv call of the loop returns Err: `?` returns it and main's unwrap
\* panics.
CameraError ==
    /\ pc = "read"
    /\ pc' = "panicked"
    /\ UNCHANGED <<actorVars, chanVars, ctlVars, histVars>>

\* ------------------------------------------------------------------ main
\* assert!(RecorderResponse::Ok == rec_client.send_request(Shutdown))
ShutdownReturns ==
    /\ pc = "shutdown_wait"
    /\ RecvReady
    /\ IF Received \in {"Disconnected", "Err"}
       THEN Panic
       ELSE /\ TakeResponse
            /\ pc' = "join"
            /\ UNCHANGED <<reqQ, sent, is_recording, start_datetime>>
    /\ UNCHANGED <<actorVars, now, activity, frameNo, lastMotion, gapsOK, eos, script, bgVars>>

\* thread.join().unwrap(): Err when the recorder thread panicked.
Join ==
    /\ pc = "join"
    /\ ActorTerminated
    /\ pc' = IF apc = "panicked" THEN "panicked" ELSE "done"
    /\ UNCHANGED <<actorVars, chanVars, ctlVars, histVars>>

Next ==
    \/ \E a \in Activities, d \in 0..MaxStep : ProcessFrame(a, d)
    \/ StartReturns
    \/ StopReturns
    \/ FrameReturns
    \/ KeyPressed
    \/ NoKey
    \/ EndOfStream
    \/ ReadEmpty
    \/ CameraError
    \/ ShutdownReturns
    \/ Join
    \/ ActorStep
    \/ ActorDisconnect
    \/ ActorExit

Spec == Init /\ [][Next]_vars

\* The main thread is scheduled too: a call that can return does, wait_key
\* returns, and the loop reads its next frame. Nothing makes an opencv call
\* fail, so CameraError is not forced.
CtlFair ==
    /\ WF_vars(StartReturns)
    /\ WF_vars(StopReturns)
    /\ WF_vars(FrameReturns)
    /\ WF_vars(ShutdownReturns)
    /\ WF_vars(Join)
    /\ WF_vars(KeyPressed \/ NoKey)
    /\ WF_vars((\E a \in Activities, d \in 0..MaxStep : ProcessFrame(a, d))
                  \/ EndOfStream \/ ReadEmpty)

FairSpec == Spec /\ ActorFair /\ CtlFair

\* ------------------------------------------------------ background model
Max(a, b) == IF a >= b THEN a ELSE b
Min(a, b) == IF a <= b THEN a ELSE b

\* gray.convert_to(&mut avg, CV_32F, 1., 0.): a u8 is an f32 exactly.
ConvertTo(g) == [lo |-> g * Scale, hi |-> g * Scale]

\* Mutant of AccumulateWeighted: the two weights are swapped.
AccumulateWeighted_Swapped(g, a) ==
    [lo |-> Max(0, ((AlphaDen - AlphaNum) * g * Scale + AlphaNum * a.lo)
                       \div AlphaDen - RoundErr),
     hi |-> ((AlphaDen - AlphaNum) * g * Scale + AlphaNum * a.hi + AlphaDen - 1)
                       \div AlphaDen + RoundErr]

\* imgproc::accumulate_weighted(&gray, &mut avg, 0.6, ..):
\* avg = 0.6 * gray + 0.4 * avg in f32, which is never negative.
AccumulateWeighted(g, a) ==
    [lo |-> Max(0, (AlphaNum * g * Scale + (AlphaDen - AlphaNum) * a.lo)
                       \div AlphaDen - RoundErr),
     hi |-> (AlphaNum * g * Scale + (AlphaDen - AlphaNum) * a.hi + AlphaDen - 1)
                       \div AlphaDen + RoundErr]

\* convert_scale_abs(&avg, &mut scale_abs, 1., 0.): the f32 rounded to the
\* nearest u8, saturating. The values the enclosed f32 can round to.
ConvertScaleAbs(a) ==
    { Min(maxval, k) : k \in ((a.lo + Scale \div 2 - 1) \div Scale)
                                ..((a.hi + Scale \div 2) \div Scale) }

\* absdiff(&gray, &scale_abs, ..)
AbsDiff(x, y) == IF x >= y THEN x - y ELSE y - x

\* imgproc::threshold(.., threshold1, 255., THRESH_BINARY)
Threshold(d) == IF d > threshold1 THEN maxval ELSE 0

\* The background model's part of an iteration, for a frame whose gray
\* pixel is g.
BackgroundFrame(g) ==
    /\ seen < MaxSeen
    /\ pc = "read"
    /\ gray' = g
    /\ have_avg' = TRUE
    /\ avg' = AccumulateWeighted(g, IF have_avg THEN avg ELSE ConvertTo(g))
    /\ scale_abs' \in ConvertScaleAbs(avg')
    /\ frame_delta' = AbsDiff(g, scale_abs')
    /\ thresh' = Threshold(frame_delta')
    /\ seen' = seen + 1
    /\ streak' = IF seen > 0 /\ g = gray THEN streak + 1 ELSE 1
    /\ UNCHANGED <<actorVars, chanVars, pc, is_recording, start_datetime, now,
                   activity, frameNo, lastMotion, gapsOK, eos, script, histVars>>

NextBackground == \E g \in Grays : BackgroundFrame(g)

SpecBackground == Init /\ [][NextBackground]_vars

\* A frame source that replays a recording: ten frames one second apart, five
\* still, three with 60 contours, two still. Each entry is <<contours, seconds
\* since the previous frame>>.
Scenario ==
    << <<0, 1>>, <<0, 1>>, <<0, 1>>, <<0, 1>>, <<0, 1>>,
       <<60, 1>>, <<60, 1>>, <<60, 1>>,
       <<0, 1>>, <<0, 1>> >>

InitScripted == InitCommon /\ pc = "read" /\ script \in {<<>>, Scenario}

NextScripted == Next \/ ScriptedFrame

\* The program in front of either a camera (any frames, MaxFrames of them) or
\* the replayed Scenario.
SpecScripted == InitScripted /\ [][NextScripted]_vars

\* =================================================================
\* Properties
\* =================================================================
\* Ordinal of the first Shutdown among the requests sent (0 when none).
ShutdownIndex ==
    IF \E i \in 1..Len(sent) : sent[i].kind = "Shutdown"
    THEN CHOOSE i \in 1..Len(sent) :
             /\ sent[i].kind = "Shutdown"
             /\ \A j \in 1..(i - 1) : sent[j].kind # "Shutdown"
    ELSE 0

\* Requests sent up to and including the first Shutdown.
Answerable == IF ShutdownIndex = 0 THEN Len(sent) ELSE ShutdownIndex

InCall == pc \in {"h_wait", "start_wait", "stop_wait", "frame_wait", "shutdown_wait"}

\* C1 as stated: whenever no send_request call is in progress, each request
\* sent up to and including the first Shutdown has yielded one response.
C1_Original == ~InCall => Len(got) = Answerable

\* The i-th response received answers the i-th request, and there is never a
\* response without its request.
FifoOneEach ==
    /\ Len(got) + Len(resQ) <= Answerable
    /\ \A i \in 1..Len(got) : got[i].id = i
    /\ \A i \in 1..Len(resQ) : resQ[i].id = Len(got) + i

\* What C1 (amended) says of every state.
C1_Safety ==
    /\ FifoOneEach
    /\ (pc \in {"h_idle", "h_joined", "h_dropped"}) => Len(got) = Len(sent)
    /\ (apc # "panicked" /\ ~InCall) => Len(got) = Answerable
    /\ (apc = "panicked" /\ ~InCall) => Len(got) = Len(sent) - 1
    /\ pc = "panicked" => (apc = "panicked" \/ ShutdownIndex # 0)

\* C1 (amended): responses are received in request order, at most one per
\* request; as long as no sink operation has failed, every send_request call
\* that has returned got exactly one response, N calls before a Shutdown have
\* N responses and the Shutdown one more; a call aborts only after a sink
\* failure or a Shutdown; and under a fair scheduler a call never hangs.
C1_FifoResponses == []C1_Safety /\ (InCall ~> ~InCall)

\* N = 3 requests answered, then the Shutdown answered: 4 responses in order.
C1_Witness ==
    /\ Len(sent) = 4 /\ Len(got) = 4
    /\ ShutdownIndex = 4
    /\ sent[1].kind = "Start" /\ sent[2].kind = "Frame" /\ sent[3].kind = "Stop"
    /\ got[4].id = 4

\* ---------------------------------------------------------------- C2
\* The actor's two states.
Idle == ~recording /\ writer = 0
Recording == recording /\ writer # 0

\* This step is the recorder thread handling a request of kind k.
Handling(k) ==
    /\ apc = "recv"
    /\ reqQ # <<>>
    /\ Head(reqQ).kind = k
    /\ reqQ' = Tail(reqQ)

\* This step answers the request handled with v, and with nothing else.
Answers(v) == resQ' = Append(resQ, [val |-> v, id |-> Head(reqQ).id])

\* This step leaves the actor's state and every sink as they are.
ActorUntouched ==
    /\ recording' = recording
    /\ writer' = writer
    /\ sinks' = sinks
    /\ apc' = apc

\* This step opens one new, empty sink and binds `writer` to it.
OpensNewSink ==
    /\ Len(sinks') = Len(sinks) + 1
    /\ writer' = Len(sinks')
    /\ sinks'[writer'] = [st |-> "open", frames |-> <<>>]

\* This step is a panic of the recorder thread: no response, no new sink.
DiesSilently ==
    /\ apc' = "panicked"
    /\ resQ' = resQ
    /\ Len(sinks') = Len(sinks)

IdleRejects ==
    (Idle /\ (Handling("Stop") \/ Handling("Frame")))
        => (Answers("Err") /\ ActorUntouched /\ Idle')

\* C2 as stated: from Idle, Stop and Frame are answered Err and change
\* nothing; Start is always answered Ok and leaves the actor Recording with
\* a newly opened sink.
C2_Original ==
    [][ /\ IdleRejects
        /\ (Idle /\ Handling("Start"))
              => (Answers("Ok") /\ Recording' /\ OpensNewSink /\ apc' = apc)
      ]_vars

\* C2 (amended): from Idle, Stop and Frame are answered Err and leave the
\* actor Idle with every sink untouched; Start is answered Ok and leaves the
\* actor Recording with a newly opened sink, unless opening the sink fails:
\* then the recorder thread panics, no response is sent and no sink is opened.
C2_FromIdle ==
    [][ /\ IdleRejects
        /\ (Idle /\ Handling("Start"))
              => \/ Answers("Ok") /\ Recording' /\ OpensNewSink /\ apc' = apc
                 \/ DiesSilently
      ]_vars

\* Stop, Frame and Start were sent from Idle in turn and answered Err, Err, Ok.
C2_Witness ==
    /\ Len(got) = 3
    /\ sent[1].kind = "Stop" /\ got[1].val = "Err"
    /\ sent[2].kind = "Frame" /\ got[2].val = "Err"
    /\ sent[3].kind = "Start" /\ got[3].val = "Ok"
    /\ Recording
    /\ sinks = <<[st |-> "open", frames |-> <<>>]>>

\* ---------------------------------------------------------------- C3
\* This step appends frame f to the sink bound to `writer`, and only that.
WritesFrame(f) ==
    /\ writer # 0
    /\ sinks' = [sinks EXCEPT ![writer].frames = Append(@, f)]

NothingWritten ==
    /\ Len(sinks') = Len(sinks)
    /\ \A i \in 1..Len(sinks) : sinks'[i].frames = sinks[i].frames

FrameOk ==
    /\ Answers("Ok")
    /\ WritesFrame(Head(reqQ).frame)
    /\ Recording'
    /\ writer' = writer
    /\ apc' = apc

FrameErr == Answers("Err") /\ NothingWritten /\ ActorUntouched

\* C3 as stated: a Frame is answered, Ok exactly when a sink is bound; Ok
\* comes with the frame written to the bound sink and the actor staying
\* Recording, Err with nothing written.
C3_Original ==
    [][ Handling("Frame") =>
          /\ (Answers("Ok") \/ Answers("Err"))
          /\ Answers("Ok") <=> writer # 0
          /\ Answers("Ok") => FrameOk
          /\ Answers("Err") => FrameErr
      ]_vars

\* C3 (amended): a Frame(f) handled with no sink bound is answered Err and
\* nothing is written; one handled with a sink bound is answered Ok, with f
\* appended to that sink and the actor staying Recording, unless the write
\* fails: then the recorder thread panics, sends no answer and writes nothing.
C3_FrameIffSink ==
    [][ Handling("Frame") =>
          /\ writer = 0 => FrameErr
          /\ writer # 0 => (FrameOk \/ (DiesSilently /\ NothingWritten))
          /\ Answers("Ok") => FrameOk
          /\ Answers("Err") => FrameErr
      ]_vars

\* A Frame sent while Idle was answered Err, one sent after Start was answered
\* Ok and is the only frame in the sink.
C3_Witness ==
    /\ Len(got) = 3
    /\ sent[1].kind = "Frame" /\ got[1].val = "Err"
    /\ sent[2].kind = "Start" /\ got[2].val = "Ok"
    /\ sent[3].kind = "Frame" /\ got[3].val = "Ok"
    /\ Recording
    /\ sinks = <<[st |-> "open", frames |-> <<3>>]>>

\* ---------------------------------------------------------------- C4
\* This step finalizes the sink bound to `writer`, and touches no other.
FinalizesSink ==
    /\ writer # 0
    /\ sinks' = [sinks EXCEPT ![writer].st = "released"]

\* Request i is a Stop answered Ok and no Start was sent after it up to
\* request j.
StoppedSince(i, j) ==
    /\ sent[i].kind = "Stop"
    /\ got[i].val = "Ok"
    /\ \A k \in (i + 1)..(j - 1) : sent[k].kind # "Start"

ErrAfterStop ==
    \A j \in 1..Len(got) :
        (/\ sent[j].kind \in {"Frame", "Stop"}
         /\ \E i \in 1..(j - 1) : StoppedSince(i, j))
            => got[j].val = "Err"

\* C4: from Recording, a Stop whose release() succeeds (the thread does not
\* panic) finalizes the bound sink, is answered Ok and leaves the actor Idle;
\* every Frame or Stop answered after a Stop that was answered Ok, with no
\* Start in between, is answered Err.
C4_StopThenErr ==
    /\ [][ (Recording /\ Handling("Stop") /\ apc' # "panicked")
              => (Answers("Ok") /\ FinalizesSink /\ Idle' /\ apc' = apc)
         ]_vars
    /\ []ErrAfterStop

\* Start, Stop, Frame, Stop: the first Stop is answered Ok and finalizes the
\* sink, the Frame and the second Stop are answered Err.
C4_Witness ==
    /\ Len(got) = 4
    /\ sent[1].kind = "Start" /\ got[1].val = "Ok"
    /\ sent[2].kind = "Stop" /\ got[2].val = "Ok"
    /\ sent[3].kind = "Frame" /\ got[3].val = "Err"
    /\ sent[4].kind = "Stop" /\ got[4].val = "Err"
    /\ Idle
    /\ sinks = <<[st |-> "released", frames |-> <<>>]>>

\* ---------------------------------------------------------------- C5
\* The response to the first Shutdown has been received.
ShutdownAnswered == ShutdownIndex # 0 /\ Len(got) >= ShutdownIndex

\* Once the request loop has been left, no request is taken from the channel
\* and no response is sent, ever.
LoopLeftForGood ==
    apc # "recv" =>
        /\ apc' # "recv"
        /\ Len(reqQ') >= Len(reqQ)
        /\ Len(resQ') <= Len(resQ)

\* The Shutdown's response is Ok and it is the last response there is.
ShutdownIsLast ==
    ShutdownIndex # 0 =>
        /\ Len(got) + Len(resQ) <= ShutdownIndex
        /\ Len(got) = ShutdownIndex => got[ShutdownIndex].val = "Ok"

\* C5: in any state, Shutdown is answered Ok and ends the request loop; from
\* then on the recorder thread takes no request and sends no response; and
\* once the Shutdown's response has been received the thread finishes (a join
\* on it completes), whatever is sent to it afterwards.
C5_ShutdownTerminates ==
    /\ [][ /\ Handling("Shutdown") =>
                (Answers("Ok") /\ apc' = "exiting" /\ recording' = recording)
           /\ LoopLeftForGood
         ]_vars
    /\ []ShutdownIsLast
    /\ (ShutdownAnswered ~> apc = "done")

\* Shutdown was sent while Recording and answered Ok; the thread has finished
\* and the Frame sent after it lies in the channel, unanswered: its
\* send_request has panicked.
C5_Witness ==
    /\ Len(sent) = 3 /\ Len(got) = 2
    /\ sent[1].kind = "Start"
    /\ sent[2].kind = "Shutdown" /\ got[2].val = "Ok"
    /\ sent[3].kind = "Frame"
    /\ reqQ = <<sent[3]>>
    /\ apc = "done"
    /\ pc = "panicked"

\* ---------------------------------------------------------------- C6
\* C6: between requests, whatever was sent, at most one sink is open (opened
\* and neither released nor dropped), and it is the one bound to `writer`.
C6_OneSession ==
    /\ Cardinality(OpenSinks) <= 1
    /\ OpenSinks \subseteq {writer}

\* Two Starts in a row were answered Ok: the first sink has been closed by
\* the drop of the writer it was bound to, the second is the open one.
C6_Witness ==
    /\ Len(got) = 2
    /\ sent[1].kind = "Start" /\ got[1].val = "Ok"
    /\ sent[2].kind = "Start" /\ got[2].val = "Ok"
    /\ Len(sinks) = 2
    /\ sinks[1].st = "dropped"
    /\ OpenSinks = {2}
    /\ writer = 2

\* ---------------------------------------------------------------- C7
\* A send_request call has returned in this step.
CallReturns == got' # got

\* What C7 says of every state.
C7_Channels ==
    /\ Len(reqQ) + Len(resQ) <= 1
    /\ (reqQ # <<>> \/ resQ # <<>>) => (InCall \/ pc = "panicked")
    /\ Len(sent) - Len(got) <= 1
    /\ ~InCall /\ pc # "panicked" => Len(got) = Len(sent)

\* C7: the two channels together never hold more than one message; a request
\* or response is in flight only while a send_request call is in progress
\* (or has failed); and the response a call returns is the one produced for
\* the request that call sent.
C7_RoundTrip ==
    /\ []C7_Channels
    /\ [][ CallReturns =>
              /\ InCall
              /\ got' = Append(got, Head(resQ))
              /\ Head(resQ).id = Len(sent)
              /\ ~InCall' \/ Len(sent') = Len(sent) + 1
         ]_vars

\* The control loop's second call, a Frame, has returned the response made
\* for it and both channels are empty again.
C7_Witness ==
    /\ pc = "wait_key"
    /\ Len(sent) = 2 /\ Len(got) = 2
    /\ sent[2].kind = "Frame"
    /\ got[2] = [val |-> "Ok", id |-> 2]
    /\ reqQ = <<>> /\ resQ = <<>>

\* ---------------------------------------------------------------- C8
\* This step processes a frame: the control loop's iteration up to its first
\* send_request call.
FrameStep == frameNo' = frameNo + 1

\* This step issues a request of kind k.
Issued(k) == Len(sent') = Len(sent) + 1 /\ sent'[Len(sent')].kind = k

LastSent == sent[Len(sent)].kind

\* The frame processed in this step is below the threshold and comes
\* min_record_duration or more after the last frame that reached it.
QuietLongEnough ==
    /\ activity' < threshold_count
    /\ lastMotion # None
    /\ now' - lastMotion >= min_record_duration

\* Between a Start's return and the next frame with motion, start_datetime
\* is the time of the last frame whose activity reached the threshold.
TimerIsLastMotion ==
    pc \notin {"start_wait", "panicked"} => start_datetime = lastMotion

StopOnlyWhenDue ==
    pc = "stop_wait" =>
        /\ activity < threshold_count
        /\ now - lastMotion >= min_record_duration

StoppedMeansNotRecording ==
    (Len(sent) > 0 /\ LastSent = "Stop" /\ ~InCall /\ pc # "panicked")
        => ~is_recording

\* C8: while recording, Stop is issued in exactly the frames that are below
\* the threshold and come 3s or more after the last frame with motion, and
\* nowhere else (so at the first such frame, and at no earlier one); when the
\* Stop call returns, is_recording is false; the timer start_datetime is the
\* time of the last frame with motion, not the time the recording started.
C8_HysteresisStop ==
    /\ [][ /\ FrameStep => (Issued("Stop") <=> (is_recording /\ QuietLongEnough))
           /\ Issued("Stop") => FrameStep
           /\ (pc = "stop_wait" /\ CallReturns) => ~is_recording'
         ]_vars
    /\ []TimerIsLastMotion
    /\ []StopOnlyWhenDue
    /\ []StoppedMeansNotRecording

\* Motion in frame 1 at t = 0 and none since: frames 1 to 3 were recorded and
\* the Stop came with frame 4 at t = 3.
C8_Witness ==
    /\ frameNo = 4 /\ now = 3 /\ lastMotion = 0
    /\ Len(sent) = 5 /\ Len(got) = 5
    /\ sent[1].kind = "Start"
    /\ sent[2] = [kind |-> "Frame", frame |-> 1, id |-> 2]
    /\ sent[3] = [kind |-> "Frame", frame |-> 2, id |-> 3]
    /\ sent[4] = [kind |-> "Frame", frame |-> 3, id |-> 4]
    /\ sent[5].kind = "Stop" /\ got[5].val = "Ok"
    /\ ~is_recording
    /\ pc = "wait_key"

\* ---------------------------------------------------------------- C9
NoStopSent == \A i \in 1..Len(sent) : sent[i].kind # "Stop"

MotionSeen == lastMotion # None

\* C9 as stated: if consecutive frames with motion are always less than 3s
\* apart, no Stop is ever issued and is_recording stays true.
C9_Original == (gapsOK /\ MotionSeen) => (NoStopSent /\ is_recording)

\* C9 (amended): if consecutive frames with motion are always less than 3s
\* apart, then for as long as less than 3s have passed since the last frame
\* with motion no Stop has been issued and is_recording is true.
C9_NoFlap ==
    (gapsOK /\ MotionSeen /\ now - lastMotion < min_record_duration)
        => (NoStopSent /\ is_recording)

\* Five frames one second apart, the first and the last with motion: one
\* Start, every frame recorded, no Stop.
C9_Witness ==
    /\ frameNo = 5 /\ now = 4 /\ lastMotion = 4 /\ gapsOK
    /\ activity = 60
    /\ Len(sent) = 6 /\ Len(got) = 6
    /\ sent[1].kind = "Start"
    /\ \A i \in 2..6 : sent[i].kind = "Frame" /\ sent[i].frame = i - 1
    /\ is_recording
    /\ pc = "wait_key"

\* --------------------------------------------------------------- C10
MotionSetsTimer ==
    (frameNo > 0 /\ activity >= threshold_count
        /\ pc \notin {"start_wait", "panicked"})
        => (start_datetime = now /\ is_recording)

StopBetweenStarts ==
    \A i, j \in 1..Len(sent) :
        (i < j /\ sent[i].kind = "Start" /\ sent[j].kind = "Start")
            => \E k \in (i + 1)..(j - 1) : sent[k].kind = "Stop"

\* C10: a frame whose activity is 50 or more leaves is_recording true and,
\* once its Start (if any) has returned, start_datetime at the frame's time;
\* Start is issued in exactly the frames with activity 50 or more that find
\* is_recording false, and nowhere else; between two Starts there is a Stop.
C10_HysteresisStart ==
    /\ [][ /\ FrameStep =>
                /\ Issued("Start") <=>
                       (activity' >= threshold_count /\ ~is_recording)
                /\ activity' >= threshold_count => is_recording'
           /\ Issued("Start") => FrameStep
         ]_vars
    /\ []MotionSetsTimer
    /\ []StopBetweenStarts

\* A recording was started, stopped after the dwell, and started again by a
\* frame whose activity is exactly 50.
C10_Witness ==
    /\ activity = 50
    /\ Len(sent) >= 5
    /\ sent[1].kind = "Start"
    /\ sent[Len(sent) - 2].kind = "Stop"
    /\ sent[Len(sent) - 1].kind = "Start"
    /\ LastSent = "Frame" /\ sent[Len(sent)].frame = frameNo
    /\ Len(got) = Len(sent)
    /\ start_datetime = now
    /\ is_recording
    /\ pc = "wait_key"

\* The recorder thread never handles a request whose sender has gone, so
\* res_sender.send(..).unwrap() in its arms does not fail.
ResponderHasPeer == (apc = "recv" /\ reqQ # <<>>) => ~ClientGone

\* --------------------------------------------------------------- C11
\* The key press has been observed: the loop has been left.
KeySeen == pc \in {"shutdown_wait", "join", "done"}

\* The loop has exited, the Shutdown has been answered Ok and the recorder
\* thread has been joined.
ShutDownAndJoined ==
    /\ pc = "done"
    /\ apc = "done"
    /\ ShutdownIndex # 0
    /\ Len(got) = ShutdownIndex
    /\ got[ShutdownIndex].val = "Ok"

\* C11 as stated: under fair scheduling, once the frame source has signalled
\* end-of-stream or a key press has been observed, the loop exits, Shutdown
\* is answered Ok and the recorder thread is joined (unless the process has
\* aborted on a failed opencv call, which the claim does not speak of).
C11_Terminates == (eos \/ KeySeen) ~> (ShutDownAndJoined \/ pc = "panicked")

\* The half of C11 that the code keeps: a key press leads to the shutdown.
KeyPressTerminates == KeySeen ~> ShutDownAndJoined

\* --------------------------------------------------------------- C12
\* A Frame request carrying frame number n has been issued.
FrameIssued(n) ==
    \E i \in 1..Len(sent) : sent[i].kind = "Frame" /\ sent[i].frame = n

\* The frame just processed was sent to the recorder iff is_recording holds
\* after its decision.
FrameIffRecording ==
    pc = "wait_key" => (FrameIssued(frameNo) <=> is_recording)

\* This step issues Frame(n).
IssuesFrame(n) == Issued("Frame") /\ sent'[Len(sent')].frame = n

\* Start has returned Ok: the frame that triggered it is sent next.
StartFrameRecorded ==
    pc = "start_wait" /\ CallReturns /\ pc' # "panicked"
        => IssuesFrame(frameNo) /\ frameNo' = frameNo

\* Stop has returned Ok: the frame that triggered it is not sent.
StopFrameDropped ==
    pc = "stop_wait" /\ CallReturns /\ pc' # "panicked"
        => sent' = sent /\ pc' = "wait_key" /\ ~FrameIssued(frameNo)

\* A still frame inside the dwell window of a running recording is sent.
DwellFrameRecorded ==
    FrameStep /\ is_recording /\ activity' < threshold_count
              /\ ~QuietLongEnough /\ pc' # "panicked"
        => IssuesFrame(frameNo')

\* Frame is the last request of its iteration.
FrameIsLast == pc = "frame_wait" => sent' = sent

\* The request without its ghost id.
Plain(r) == [kind |-> r.kind, frame |-> r.frame]

\* The Scenario has been replayed to its last frame. (A camera run has an
\* empty script too, but fewer frames than the Scenario.)
ScenarioPlayed ==
    script = <<>> /\ frameNo = Len(Scenario) /\ pc = "wait_key"

ScenarioRequests ==
    [i \in 1..Len(sent) |-> Plain(sent[i])]
        = <<Start, Frame(6), Frame(7), Frame(8), Frame(9), Frame(10)>>

\* C12: a processed frame is sent as Frame(frame) iff is_recording holds after
\* the frame's decision, and after the Start or Stop of the same iteration:
\* the frame that triggers Start is sent, a still frame inside the dwell
\* window is sent, the frame that triggers Stop is not. Replaying the
\* Scenario issues Start at frame 6, Frame for frames 6..10 and no Stop.
C12_FrameIffRecording ==
    /\ [](FrameIffRecording /\ (ScenarioPlayed => ScenarioRequests))
    /\ [][/\ StartFrameRecorded
          /\ StopFrameDropped
          /\ DwellFrameRecorded
          /\ FrameIsLast]_vars

C12_Witness == ScenarioPlayed /\ is_recording /\ FrameIssued(Len(Scenario))
\* --------------------------------------------------------------- C13
\* What the code does with a Stop whose release() fails: the thread dies
\* with no response.
StopFailureIsFatal ==
    [][ (Recording /\ Handling("Stop") /\ ~FinalizesSink) => DiesSilently ]_vars

\* C13 as stated: from Recording every Stop, the one whose finalization fails
\* included, is answered (Ok, or Err on failure), leaves the actor Idle and
\* the actor goes on serving requests.
C13_StopAlwaysAnswered ==
    [][ (Recording /\ Handling("Stop"))
            => /\ Answers("Ok") \/ Answers("Err")
               /\ Idle'
               /\ apc' = "recv"
      ]_vars

\* --------------------------------------------------------------- C14
\* This step closes the sink that was bound to `writer` by dropping it, and
\* leaves its frames and every other old sink as they were.
DropsPriorSink ==
    /\ writer # 0
    /\ \A i \in 1..Len(sinks) :
          sinks'[i] = IF i = writer THEN [sinks[i] EXCEPT !.st = "dropped"]
                                   ELSE sinks[i]

\* This step leaves every old sink, the one bound to `writer` included, as
\* it was.
KeepsPriorSink == \A i \in 1..Len(sinks) : sinks'[i] = sinks[i]

\* A Frame request touches no sink but the one bound to `writer`.
FrameToBoundSinkOnly ==
    Handling("Frame") =>
        /\ Len(sinks') = Len(sinks)
        /\ \A i \in 1..Len(sinks) : i # writer => sinks'[i] = sinks[i]

\* C14 as stated: from Recording, a Start whose sink opens is answered Ok,
\* binds a newly opened sink, and leaves the previously bound sink unclosed.
C14_Original ==
    [][ (Recording /\ Handling("Start") /\ apc' # "panicked")
            => (Answers("Ok") /\ OpensNewSink /\ Recording' /\ KeepsPriorSink)
      ]_vars

\* C14, amended: from Recording, a Start whose sink opens is answered Ok and
\* leaves the actor Recording, bound to a newly opened sink; the previously
\* bound sink is not released by the handler but is closed by the drop of
\* the writer it was bound to, with the frames it had; a Frame request is
\* written to the sink bound at that moment and touches no other.
C14_Restart ==
    [][ /\ (Recording /\ Handling("Start") /\ apc' # "panicked")
              => (Answers("Ok") /\ OpensNewSink /\ Recording' /\ DropsPriorSink)
        /\ FrameToBoundSinkOnly
      ]_vars

\* Start, Frame, Start, Frame, all answered Ok: the first sink is closed with
\* its one frame, the second is open and holds the later frame only.
C14_Witness ==
    /\ Len(got) = 4
    /\ \A i \in 1..4 : got[i].val = "Ok"
    /\ sent[1].kind = "Start" /\ sent[2].kind = "Frame"
    /\ sent[3].kind = "Start" /\ sent[4].kind = "Frame"
    /\ Len(sinks) = 2
    /\ sinks[1] = [st |-> "dropped", frames |-> <<sent[2].frame>>]
    /\ sinks[2] = [st |-> "open", frames |-> <<sent[4].frame>>]
    /\ writer = 2

\* --------------------------------------------------------------- C15
\* C15: once the recorder thread has terminated (after Shutdown, after the
\* client went away, or by a panic), no sink opened by a Start is still
\* open: each was released by a Stop or closed when `writer` was dropped.
C15_SinksClosed == ActorTerminated => OpenSinks = {}

\* The loop was left on a key press while is_recording was true: Shutdown
\* was answered, the thread joined, and the session's sink is closed though
\* no Stop was ever sent.
C15_Witness ==
    /\ pc = "done"
    /\ apc = "done"
    /\ is_recording
    /\ sinks # <<>>
    /\ sinks[Len(sinks)].st = "dropped"
    /\ sinks[Len(sinks)].frames # <<>>
    /\ \A i \in 1..Len(sent) : sent[i].kind # "Stop"
\* --------------------------------------------------------------- C16
\* The caller waits in recv() for a response that will never come: none is
\* queued and the recorder thread has left its request loop.
BlockedOnDeadActor == pc = "h_wait" /\ resQ = <<>> /\ apc # "recv"

\* This step is a send_request call being made by an idle client.
SendAttempt == pc = "h_idle" /\ pc' \in {"h_wait", "panicked"}

\* A send_request made after the thread has terminated aborts in send().
SendToDeadActorAborts ==
    (ActorTerminated /\ SendAttempt) => (pc' = "panicked" /\ reqQ' = reqQ)

\* A panic of the thread sends nothing.
PanicSendsNothing == (apc = "recv" /\ apc' = "panicked") => resQ' = resQ

\* Err is only ever the answer of an arm that found no writer bound, which
\* attempts no sink operation.
ErrOnlyWithoutSink ==
    \A k \in {"Start", "Frame", "Stop", "Shutdown"} :
        (Handling(k) /\ Answers("Err"))
            => (k \in {"Frame", "Stop"} /\ writer = 0 /\ sinks' = sinks)

\* The request whose sink call failed is never answered.
FailedRequestUnanswered ==
    apc = "panicked" => Len(got) + Len(resQ) = Len(sent) - 1

\* C16: a caller blocked in send_request when the recorder thread dies (or
\* has left its loop after Shutdown) aborts instead of waiting for ever; a
\* send_request made after the thread has terminated aborts; and a failed
\* sink operation is never answered, with Err or otherwise.
C16_DisconnectIsFatal ==
    /\ BlockedOnDeadActor ~> pc = "panicked"
    /\ [][SendToDeadActorAborts /\ PanicSendsNothing /\ ErrOnlyWithoutSink]_vars
    /\ []FailedRequestUnanswered

\* Start was answered Ok, the write of the Frame that followed failed: the
\* thread has died without answering and the caller has aborted.
C16_Witness ==
    /\ pc = "panicked"
    /\ apc = "panicked"
    /\ Len(sent) = 2 /\ Len(got) = 1
    /\ sent[2].kind = "Frame"
    /\ resQ = <<>>
    /\ sinks = <<[st |-> "dropped", frames |-> <<>>]>>
\* --------------------------------------------------------------- C17
\* C17: whenever the control loop is about to read a frame, no request or
\* response is in flight, the recorder thread is waiting for a request, and
\* the controller's is_recording equals the thread's recording flag. (After
\* a sink failure the controller has aborted and reads no more frames.)
C17_FlagsAgree ==
    pc = "read" =>
        /\ reqQ = <<>> /\ resQ = <<>>
        /\ apc = "recv"
        /\ is_recording = recording

\* A recording was started and stopped again, and the loop is back at its
\* read with both flags false.
C17_Witness ==
    /\ pc = "read"
    /\ ~is_recording /\ ~recording
    /\ \E i \in 1..Len(got) : sent[i].kind = "Stop"

\* --------------------------------------------------------------- C18
\* Every response produced so far is Ok.
AllOk ==
    /\ \A i \in 1..Len(got) : got[i].val = "Ok"
    /\ \A i \in 1..Len(resQ) : resQ[i].val = "Ok"

\* The recorder thread handles Frame and Stop in Recording only, and Start
\* in Idle only.
Discipline ==
    /\ (Handling("Frame") \/ Handling("Stop")) => Recording
    /\ Handling("Start") => Idle

\* C18: no request the controller issues is answered Err, so the three
\* `_ => panic!` arms of the control loop are never taken: Frame and Stop
\* reach the recorder thread in Recording only (and Start in Idle only).
C18_NoErr == []AllOk /\ [][Discipline]_vars

\* Start, Frame and Stop have been sent and answered in one run.
C18_Witness ==
    /\ pc = "wait_key"
    /\ Len(got) = Len(sent)
    /\ \A k \in {"Start", "Frame", "Stop"} :
          \E i \in 1..Len(got) : sent[i].kind = k
\* --------------------------------------------------------------- C20
\* Between requests the recording flag is set iff a writer is bound.
FlagIffWriter == recording <=> writer # 0

\* Err comes from the `recording == false` arms only.
ErrOnlyWhenNotRecording ==
    (Handling("Frame") \/ Handling("Stop")) /\ Answers("Err") => ~recording

\* C20: in the recorder thread, between any two requests of any request
\* sequence, recording is true iff a writer is bound; so a Frame or Stop that
\* is answered Err was handled with recording false, never by the arm for
\* `recording` with no writer.
C20_FlagIffWriter == []FlagIffWriter /\ [][ErrOnlyWhenNotRecording]_vars

\* Start, Stop, Stop, Start: the thread is Recording again after an Ok Stop
\* and a Stop answered Err.
C20_Witness ==
    /\ Len(got) = 4
    /\ sent[1].kind = "Start" /\ sent[2].kind = "Stop"
    /\ sent[3].kind = "Stop" /\ sent[4].kind = "Start"
    /\ got[2].val = "Ok" /\ got[3].val = "Err" /\ got[4].val = "Ok"
    /\ recording /\ writer = 2
\* --------------------------------------------------------------- C19
\* The accumulator is the intensity v: it rounds to v, and to nothing else.
AccumulatorIs(v) ==
    /\ ConvertScaleAbs(avg) = {v}
    /\ scale_abs = v

\* C19: on the first frame the motion mask is zero; when the input has had
\* one intensity v for seven frames in a row, whatever came before, the
\* accumulator is v, and from then on the mask is zero on every frame of
\* that intensity (it is zero from the third such frame on); when the input
\* has had intensity v from the first frame on, the accumulator is v and
\* the mask is zero on every frame.
C19_BackgroundConverges ==
    /\ seen = 1 => thresh = 0
    /\ streak >= 7 => (AccumulatorIs(gray) /\ thresh = 0)
    /\ streak >= 3 => thresh = 0
    /\ (seen >= 1 /\ streak = seen) => (AccumulatorIs(gray) /\ thresh = 0)

\* A black frame, then seven white ones: the accumulator has reached 255
\* and the mask is zero.
C19_Witness ==
    /\ seen = 8
    /\ streak = 7
    /\ gray = maxval
    /\ avg.lo < maxval * Scale
    /\ scale_abs = maxval
    /\ thresh = 0
====
